---- MODULE Spec2Model ----
(***************************************************************************)
(* The chargeback webhook mapper: POST /webhook takes req.body.payload,    *)
(* evaluates the compiled Stripe JSONata expression on it (mapStripe),     *)
(* validates the mapped document with the Ajv-compiled chargeback schema   *)
(* (validateChargeback) and answers 200 {result}, 400 {errors} or          *)
(* 500 {error}.                                                            *)
(*                                                                         *)
(* JSON values are records [t, s, n]: t is the JSON type, s the characters *)
(* of a string, n a number in hundredths (2599 is n = 259900, 25.99 is     *)
(* n = 2599).  A JSON object is a function from its keys to values; a key  *)
(* that is absent is not in the DOMAIN.                                    *)
(***************************************************************************)
EXTENDS Integers, Sequences, FiniteSets, TLC

VARIABLES pc, body, ticks, responses, trace, errors, overlap, vdoc, vout

vars == <<pc, body, ticks, responses, trace, errors, overlap, vdoc, vout>>

\* ------------------------------------------------------------------ bounds
NumReq == 2
MaxTicks == 2

\* The evaluation deadline the documentation configures (timeout: 1000 ms),
\* in seconds.
EvalBound == 1

Requests == 1..NumReq

\* ------------------------------------------------------------- JSON values
Undefined == [t |-> "undefined", s |-> <<>>, n |-> 0]
Str(chars) == [t |-> "string", s |-> chars, n |-> 0]
Num(i) == [t |-> "number", s |-> <<>>, n |-> i * 100]
EmptyObject == [k \in {} |-> Undefined]

\* An object literal: the keys of ks whose value is present.
Object(ks, f) == [k \in {x \in ks : f[x].t # "undefined"} |-> f[k]]

LowerAlphabet == <<"a", "b", "c", "d", "e", "f", "g", "h", "i", "j", "k", "l", "m",
                   "n", "o", "p", "q", "r", "s", "t", "u", "v", "w", "x", "y", "z">>
UpperAlphabet == <<"A", "B", "C", "D", "E", "F", "G", "H", "I", "J", "K", "L", "M",
                   "N", "O", "P", "Q", "R", "S", "T", "U", "V", "W", "X", "Y", "Z">>

UpperChar(c) ==
    IF \E i \in 1..Len(LowerAlphabet) : LowerAlphabet[i] = c
    THEN UpperAlphabet[CHOOSE i \in 1..Len(LowerAlphabet) : LowerAlphabet[i] = c]
    ELSE c

\* JSONata $uppercase on the characters of a string.
Uppercase(chars) == [i \in 1..Len(chars) |-> UpperChar(chars[i])]

\* ---------------------------------------------------------------- payloads
\* A webhook payload: defined is FALSE for an undefined payload; extras are
\* the top-level keys next to data (id, type); hasObject tells whether
\* data.object is there, and object is data.object.
Payload(extras, hasObject, object) ==
    [defined |-> TRUE, extras |-> extras, hasObject |-> hasObject, object |-> object]
UndefinedPayload ==
    [defined |-> FALSE, extras |-> {}, hasObject |-> FALSE, object |-> EmptyObject]

ObjectKeys == {"id", "amount", "currency", "reason", "charge"}

DisputeObject(id, amount, currency, reason, charge) ==
    Object(ObjectKeys, [id |-> id, amount |-> amount, currency |-> currency,
                        reason |-> reason, charge |-> charge])

\* The payload of test/stripe.test.js.
TestPayload ==
    Payload({"id", "type"}, TRUE,
            DisputeObject(Str(<<"d", "p">>), Num(2599), Str(<<"u", "s", "d">>),
                          Str(<<"f", "r">>), Str(<<"c", "h", "9">>)))
\* A second well-formed dispute, with other values and a mixed-case currency.
OtherPayload ==
    Payload({}, TRUE,
            DisputeObject(Undefined, Num(1000), Str(<<"E", "u", "r">>),
                          Str(<<"d", "u", "p">>), Str(<<"c", "h", "1">>)))
\* {data: {object: {amount: 1000}}}, the README's invalid request.
AmountOnlyPayload ==
    Payload({}, TRUE, DisputeObject(Undefined, Num(1000), Undefined, Undefined, Undefined))
EmptyPayload == Payload({}, FALSE, EmptyObject)
NumericChargePayload ==
    Payload({}, TRUE,
            DisputeObject(Undefined, Num(2599), Str(<<"u", "s", "d">>),
                          Str(<<"f", "r">>), Num(7)))
NumericCurrencyPayload ==
    Payload({}, TRUE,
            DisputeObject(Undefined, Num(2599), Num(5), Str(<<"f", "r">>),
                          Str(<<"c", "h", "9">>)))
StringAmountPayload ==
    Payload({}, TRUE,
            DisputeObject(Undefined, Str(<<"1", "0">>), Str(<<"u", "s", "d">>),
                          Str(<<"f", "r">>), Str(<<"c", "h", "9">>)))

Payloads ==
    {TestPayload, OtherPayload, AmountOnlyPayload, NumericChargePayload,
     NumericCurrencyPayload, StringAmountPayload, UndefinedPayload}

\* A request body: present is FALSE when req.body is undefined; provider is
\* the provider key the caller asks for; payload is req.body.payload.
NoBody == [present |-> FALSE, provider |-> "stripe", payload |-> UndefinedPayload]
Bodies ==
    {[present |-> TRUE, provider |-> "stripe", payload |-> p] : p \in Payloads}
        \cup {[present |-> TRUE, provider |-> "nonexistent", payload |-> EmptyPayload]}
        \cup {NoBody}

\* ------------------------------------------------- the expression evaluator
\* Path navigation data.object.<key>: a missing step yields undefined, never
\* a fault.
Path(payload, key) ==
    IF payload.defined /\ payload.hasObject /\ key \in DOMAIN payload.object
    THEN payload.object[key]
    ELSE Undefined

\* The two ways an evaluation settles: the promise rejects with an error
\* code, or resolves to a document.
Thrown(code) == [ok |-> FALSE, error |-> code, value |-> EmptyObject]
Returned(v) == [ok |-> TRUE, error |-> "", value |-> v]

RecordKeys == {"transaction_id", "reason", "currency", "amount", "provider"}

\* providers/stripe.jsonata:
\*   { "transaction_id": data.object.charge, "reason": data.object.reason,
\*     "currency": $uppercase(data.object.currency),
\*     "amount": data.object.amount / 100, "provider": "stripe" }
\* $uppercase of undefined is undefined and of a non-string is error T0410;
\* undefined / 100 is undefined and a non-number / 100 is error T2001; the
\* object constructor leaves out the keys whose value is undefined.
stripeExpression(payload) ==
    LET charge == Path(payload, "charge")
        reason == Path(payload, "reason")
        currency == Path(payload, "currency")
        amount == Path(payload, "amount")
    IN  IF currency.t \notin {"undefined", "string"} THEN Thrown("T0410")
        ELSE IF amount.t \notin {"undefined", "number"} THEN Thrown("T2001")
        ELSE Returned(Object(RecordKeys,
                 [transaction_id |-> charge,
                  reason |-> reason,
                  currency |-> IF currency.t = "string"
                               THEN Str(Uppercase(currency.s)) ELSE Undefined,
                  amount |-> IF amount.t = "number"
                             THEN [amount EXCEPT !.n = amount.n \div 100] ELSE Undefined,
                  provider |-> Str(<<"s", "t", "r", "i", "p", "e">>)]))

mapStripe(payload) == stripeExpression(payload)

\* ------------------------------------------------------ the schema validator
\* schema/chargeback.schema.json: the required keys in declaration order and
\* the type of each property.
required == <<"transaction_id", "reason", "currency", "amount", "provider">>
properties ==
    [transaction_id |-> "string", reason |-> "string", currency |-> "string",
     amount |-> "number", provider |-> "string"]

\* Ajv's error objects; instancePath names the key ("/amount" is "amount",
\* the root is ""), params the missing property or the wanted type.
RequiredError(k) == [instancePath |-> "", keyword |-> "required", params |-> k]
TypeError(k) == [instancePath |-> k, keyword |-> "type", params |-> properties[k]]

\* validateChargeback.errors after a successful validation.
Null == <<>>

Missing(data, k) == k \notin DOMAIN data
WrongType(data, k) == k \in DOMAIN data /\ data[k].t # properties[k]

\* The required errors, then the type errors, each in schema order.
AllViolations(data) ==
    LET miss == SelectSeq(required, LAMBDA k : Missing(data, k))
        wrong == SelectSeq(required, LAMBDA k : WrongType(data, k))
    IN  [i \in 1..Len(miss) |-> RequiredError(miss[i])]
            \o [i \in 1..Len(wrong) |-> TypeError(wrong[i])]

\* An Ajv built with allErrors: every violation is reported.
validateChargebackAllErrors(data) ==
    [valid |-> AllViolations(data) = <<>>, errors |-> AllViolations(data)]

\* An Ajv built with coerceTypes: a string where a number is wanted (or the
\* reverse) is converted and accepted.
validateChargebackCoerce(data) ==
    LET miss == SelectSeq(required, LAMBDA k : Missing(data, k))
    IN  IF miss # <<>> THEN [valid |-> FALSE, errors |-> <<RequiredError(miss[1])>>]
        ELSE [valid |-> TRUE, errors |-> Null]

\* ajv.compile(schema) of new Ajv(): without allErrors the compiled function
\* returns at the first violation, so errors holds one entry; required is
\* checked before properties.
validateChargeback(data) ==
    LET all == AllViolations(data)
    IN  IF all = <<>> THEN [valid |-> TRUE, errors |-> Null]
        ELSE [valid |-> FALSE, errors |-> <<all[1]>>]

\* ----------------------------------------------------------------- handler
Succeeded(rec) ==
    [status |-> 200, tag |-> "Succeeded", result |-> rec, errors |-> Null, error |-> ""]
Rejected(errs) ==
    [status |-> 400, tag |-> "Rejected", result |-> EmptyObject, errors |-> errs, error |-> ""]
Failed(msg) ==
    [status |-> 500, tag |-> "Failed", result |-> EmptyObject, errors |-> Null, error |-> msg]

\* A handler without the try/catch: the fault escapes and nothing is sent.
Uncaught(msg) == <<>>

\* catch (err) { res.status(500).json({ error: err.message }) }
catchBlock(msg) == <<Failed(msg)>>

\* A handler that evaluates req.body instead of req.body.payload: the
\* document it maps has the single key payload and no data.
wholeBody(b) == Payload({"payload"}, FALSE, EmptyObject)

\* const payload = req.body.payload
webhookPayload(b) == b.payload

\* What the handler does once mapStripe has settled with ev, given the
\* errors now stored on validateChargeback: the responses it sends, the
\* errors it leaves on validateChargeback and the stages it passes.
Outcome(sent, errs, stages) == [sent |-> sent, errors |-> errs, stages |-> stages]

\* A handler that ignores isValid.
continuationNoGate(ev, shared) ==
    IF ~ev.ok THEN Outcome(catchBlock(ev.error), shared, <<"Failed">>)
    ELSE Outcome(<<Succeeded(ev.value)>>, validateChargeback(ev.value).errors,
                 <<"Mapped", "Validated", "Succeeded">>)

\* A handler that reads validateChargeback.errors before it calls
\* validateChargeback.
continuationStaleErrors(ev, shared) ==
    IF ~ev.ok THEN Outcome(catchBlock(ev.error), shared, <<"Failed">>)
    ELSE LET v == validateChargeback(ev.value)
         IN  IF ~v.valid
             THEN Outcome(<<Rejected(shared)>>, v.errors, <<"Mapped", "Validated", "Rejected">>)
             ELSE Outcome(<<Succeeded(ev.value)>>, v.errors,
                          <<"Mapped", "Validated", "Succeeded">>)

\* A handler that keeps the errors of the last failed validation when the
\* next document is valid, and adds to them when it is not.
continuationKeepErrors(ev, shared) ==
    IF ~ev.ok THEN Outcome(catchBlock(ev.error), shared, <<"Failed">>)
    ELSE LET v == validateChargeback(ev.value)
         IN  IF ~v.valid
             THEN Outcome(<<Rejected(shared \o v.errors)>>, shared \o v.errors,
                          <<"Mapped", "Validated", "Rejected">>)
             ELSE Outcome(<<Succeeded(ev.value)>>, shared,
                          <<"Mapped", "Validated", "Succeeded">>)

\* A handler without the return in front of res.status(400): it goes on to
\* res.json({ result }) after the 400.
continuationNoReturn(ev, shared) ==
    IF ~ev.ok THEN Outcome(catchBlock(ev.error), shared, <<"Failed">>)
    ELSE LET v == validateChargeback(ev.value)
         IN  IF ~v.valid
             THEN Outcome(<<Rejected(v.errors), Succeeded(ev.value)>>, v.errors,
                          <<"Mapped", "Validated", "Rejected", "Succeeded">>)
             ELSE Outcome(<<Succeeded(ev.value)>>, v.errors,
                          <<"Mapped", "Validated", "Succeeded">>)

\* Lines 23-33 after the await: a rejected evaluation goes to the catch
\* block; otherwise the mapped document is validated and, in the same turn
\* of the event loop, validateChargeback.errors is read and sent, or the
\* document is sent.
continuation(ev, shared) ==
    IF ~ev.ok THEN Outcome(catchBlock(ev.error), shared, <<"Failed">>)
    ELSE LET v == validateChargeback(ev.value)
         IN  IF ~v.valid
             THEN Outcome(<<Rejected(v.errors)>>, v.errors, <<"Mapped", "Validated", "Rejected">>)
             ELSE Outcome(<<Succeeded(ev.value)>>, v.errors,
                          <<"Mapped", "Validated", "Succeeded">>)

NotRun == [done |-> FALSE, out |-> Outcome(<<>>, Null, <<>>)]

Init ==
    /\ pc = [r \in Requests |-> "idle"]
    /\ body = [r \in Requests |-> NoBody]
    /\ ticks = [r \in Requests |-> 0]
    /\ responses = [r \in Requests |-> <<>>]
    /\ trace = [r \in Requests |-> <<>>]
    /\ errors = Null
    /\ overlap = FALSE
    /\ vdoc = EmptyObject
    /\ vout = NotRun

\* A request arrives and the handler runs up to its await: req.body.payload
\* throws a TypeError when req.body is undefined; otherwise mapStripe is
\* called and the handler waits for the evaluation.
Receive(r, b) ==
    /\ pc[r] = "idle"
    /\ body' = [body EXCEPT ![r] = b]
    /\ IF b.present
       THEN /\ pc' = [pc EXCEPT ![r] = "awaiting"]
            /\ trace' = [trace EXCEPT ![r] = <<"Received">>]
            /\ UNCHANGED responses
       ELSE /\ pc' = [pc EXCEPT ![r] = "done"]
            /\ trace' = [trace EXCEPT ![r] = <<"Received", "Failed">>]
            /\ responses' = [responses EXCEPT ![r] = catchBlock("TypeError")]
    /\ UNCHANGED <<ticks, errors, overlap, vdoc, vout>>

\* A second passes while the evaluation of r is pending; nothing in the
\* handler or in jsonata(...) without options watches the clock.
Tick(r) ==
    /\ pc[r] = "awaiting"
    /\ ticks[r] < MaxTicks
    /\ ticks' = [ticks EXCEPT ![r] = @ + 1]
    /\ UNCHANGED <<pc, body, responses, trace, errors, overlap, vdoc, vout>>

\* The evaluation of r settles and the handler runs to its end, in one turn
\* of the event loop.  overlap records that some handler has resumed while
\* another was suspended at its await.
Resume(r) ==
    /\ pc[r] = "awaiting"
    /\ LET h == continuation(mapStripe(webhookPayload(body[r])), errors)
       IN  /\ responses' = [responses EXCEPT ![r] = h.sent]
           /\ errors' = h.errors
           /\ trace' = [trace EXCEPT ![r] = @ \o h.stages]
    /\ pc' = [pc EXCEPT ![r] = "done"]
    /\ overlap' = (overlap \/ \E q \in Requests \ {r} : pc[q] = "awaiting")
    /\ UNCHANGED <<body, ticks, vdoc, vout>>

Next ==
    \E r \in Requests :
        \/ \E b \in Bodies : Receive(r, b)
        \/ Tick(r)
        \/ Resume(r)

Spec == Init /\ [][Next]_vars

\* ------------------------------------- the validation gate on any document
FieldValues == {Undefined, Str(<<"x">>), Num(10)}
Documents ==
    {Object(RecordKeys, f) : f \in [RecordKeys -> FieldValues]}

InitRecord ==
    /\ pc = [r \in Requests |-> "idle"]
    /\ body = [r \in Requests |-> NoBody]
    /\ ticks = [r \in Requests |-> 0]
    /\ responses = [r \in Requests |-> <<>>]
    /\ trace = [r \in Requests |-> <<>>]
    /\ errors = Null
    /\ overlap = FALSE
    /\ vdoc \in Documents
    /\ vout = NotRun

\* Lines 25-30 on a mapped document vdoc.
ValidateRecord ==
    /\ ~vout.done
    /\ vout' = [done |-> TRUE, out |-> continuation(Returned(vdoc), Null)]
    /\ UNCHANGED <<pc, body, ticks, responses, trace, errors, overlap, vdoc>>

NextRecord == ValidateRecord

SpecRecord == InitRecord /\ [][NextRecord]_vars

\* ------------------------------------------------------------------ claims
Done(r) == pc[r] = "done"
Stripe(r) == body[r].present /\ body[r].provider = "stripe"
Mapped(r) == mapStripe(body[r].payload)

\* A response is one of the three tagged outcomes, with the status and the
\* body of its tag.
Tagged(x) ==
    \/ x.tag = "Succeeded" /\ x.status = 200 /\ x.errors = Null /\ x.error = ""
    \/ x.tag = "Rejected" /\ x.status = 400 /\ x.result = EmptyObject /\ x.error = ""
    \/ x.tag = "Failed" /\ x.status = 500 /\ x.result = EmptyObject /\ x.errors = Null
           /\ x.error # ""

\* C1: every handled request has exactly one response, and it is Succeeded
\* (200 {result}), Rejected (400 {errors}) or Failed (500 {error}); a request
\* not yet handled has none.  This holds for an absent body, an absent
\* payload and an evaluation that throws.
C1_ExactlyOneOutcome ==
    \A r \in Requests :
        /\ Done(r) => Len(responses[r]) = 1 /\ Tagged(responses[r][1])
        /\ ~Done(r) => responses[r] = <<>>

\* An absent payload was answered, and so was an evaluation that threw.
C1_Witness ==
    /\ Done(1) /\ body[1].present /\ ~body[1].payload.defined
    /\ Done(2) /\ body[2].payload = NumericCurrencyPayload
    /\ responses[2][1].tag = "Failed"

\* The schema of section 3, stated on a document: the five fields are there,
\* amount is a number and the others are strings.
SatisfiesSchema(doc) ==
    /\ RecordKeys \subseteq DOMAIN doc
    /\ doc["amount"].t = "number"
    /\ \A k \in RecordKeys \ {"amount"} : doc[k].t = "string"

\* C2: a response Succeeded carries a document that satisfies the schema,
\* and a request whose mapped document does not satisfy it is answered
\* Rejected, with a non-empty violation list and no document.
C2_OnlyValidForwarded ==
    \A r \in Requests :
        Done(r) =>
            /\ \A i \in 1..Len(responses[r]) :
                   responses[r][i].tag = "Succeeded"
                       => SatisfiesSchema(responses[r][i].result)
            /\ (body[r].present /\ Mapped(r).ok /\ ~SatisfiesSchema(Mapped(r).value))
                   => /\ Len(responses[r]) = 1
                      /\ responses[r][1].tag = "Rejected"
                      /\ responses[r][1].errors # <<>>
                      /\ responses[r][1].result = EmptyObject

\* One request was rejected for a wrong type and another succeeded.
C2_Witness ==
    /\ Done(1) /\ body[1].payload = NumericChargePayload
    /\ responses[1][1].tag = "Rejected"
    /\ Done(2) /\ responses[2][1].tag = "Succeeded"

\* The payloads C3 is about: data.object holds a string charge, reason and
\* currency and a numeric amount.
WellFormed(p) ==
    /\ Path(p, "charge").t = "string"
    /\ Path(p, "reason").t = "string"
    /\ Path(p, "currency").t = "string"
    /\ Path(p, "amount").t = "number"

IsUpperOf(up, chars) ==
    /\ Len(up) = Len(chars)
    /\ \A i \in 1..Len(chars) :
           /\ \A j \in 1..Len(LowerAlphabet) : up[i] # LowerAlphabet[j]
           /\ \/ up[i] = chars[i]
              \/ \E j \in 1..Len(LowerAlphabet) :
                     chars[i] = LowerAlphabet[j] /\ up[i] = UpperAlphabet[j]

\* C3: a well-formed Stripe dispute is answered Succeeded with exactly the
\* five fields: transaction_id = charge, reason = reason, currency = the
\* currency in upper case, amount = amount / 100, provider = "stripe"; for
\* the payload of the test that is {ch9, fr, USD, 25.99, stripe}.
C3_StripeMapping ==
    \A r \in Requests :
        (Done(r) /\ Stripe(r) /\ WellFormed(body[r].payload)) =>
            LET p == body[r].payload
                x == responses[r][1]
            IN  /\ Len(responses[r]) = 1
                /\ x.tag = "Succeeded"
                /\ DOMAIN x.result = RecordKeys
                /\ x.result["transaction_id"] = Path(p, "charge")
                /\ x.result["reason"] = Path(p, "reason")
                /\ x.result["currency"].t = "string"
                /\ IsUpperOf(x.result["currency"].s, Path(p, "currency").s)
                /\ x.result["amount"].t = "number"
                /\ x.result["amount"].n * 100 = Path(p, "amount").n
                /\ x.result["provider"] = Str(<<"s", "t", "r", "i", "p", "e">>)
                /\ p = TestPayload =>
                       x.result = [transaction_id |-> Str(<<"c", "h", "9">>),
                                   reason |-> Str(<<"f", "r">>),
                                   currency |-> Str(<<"U", "S", "D">>),
                                   amount |-> [t |-> "number", s |-> <<>>, n |-> 2599],
                                   provider |-> Str(<<"s", "t", "r", "i", "p", "e">>)]

\* The test's payload and the mixed-case one were both answered.
C3_Witness ==
    /\ Done(1) /\ Stripe(1) /\ body[1].payload = TestPayload
    /\ Done(2) /\ Stripe(2) /\ body[2].payload = OtherPayload

\* The required fields a document lacks.
MissingFields(doc) == {k \in RecordKeys : k \notin DOMAIN doc}

FirstMissing(doc) ==
    required[CHOOSE i \in 1..Len(required) :
                 /\ required[i] \notin DOMAIN doc
                 /\ \A j \in 1..(i - 1) : required[j] \in DOMAIN doc]

\* The request r lacks source fields and its evaluation returned.
LacksFields(r) ==
    Done(r) /\ Stripe(r) /\ Mapped(r).ok /\ MissingFields(Mapped(r).value) # {}

\* C4 as stated: a payload that lacks required source fields is answered
\* Rejected with one violation per missing required field.
C4_OneEntryPerMissingField ==
    \A r \in Requests :
        LacksFields(r) =>
            LET x == responses[r][1]
            IN  /\ x.tag = "Rejected"
                /\ Len(x.errors) = Cardinality(MissingFields(Mapped(r).value))
                /\ \A k \in MissingFields(Mapped(r).value) :
                       \E i \in 1..Len(x.errors) : x.errors[i] = RequiredError(k)

\* C4 as amended: a payload that lacks required source fields is answered
\* Rejected, not Failed, the mapped document leaving those fields out, and
\* the violation list holds exactly one entry, for the first missing required
\* field in schema order; for {data: {object: {amount: 1000}}} that entry is
\* the one for transaction_id.
C4_FirstMissingFieldOnly ==
    \A r \in Requests :
        LacksFields(r) =>
            /\ Len(responses[r]) = 1
            /\ responses[r][1].tag = "Rejected"
            /\ responses[r][1].errors = <<RequiredError(FirstMissing(Mapped(r).value))>>
            /\ body[r].payload = AmountOnlyPayload =>
                   /\ MissingFields(Mapped(r).value) = {"transaction_id", "reason", "currency"}
                   /\ responses[r][1].errors = <<RequiredError("transaction_id")>>

\* The README's invalid request was answered.
C4_Witness ==
    \E r \in Requests : LacksFields(r) /\ body[r].payload = AmountOnlyPayload

\* C5: a request for a provider key that is not registered is answered
\* Failed, never Succeeded or Rejected.
C5_UnknownProviderFails ==
    \A r \in Requests :
        (Done(r) /\ body[r].present /\ body[r].provider = "nonexistent") =>
            \A i \in 1..Len(responses[r]) : responses[r][i].tag = "Failed"

\* What a request's own payload gives, whatever the other requests are.
OwnViolations(doc) ==
    IF MissingFields(doc) # {} THEN <<RequiredError(FirstMissing(doc))>>
    ELSE LET bad == {i \in 1..Len(required) : doc[required[i]].t # properties[required[i]]}
             first == CHOOSE i \in bad : \A j \in bad : i <= j
         IN  <<TypeError(required[first])>>

\* C6: under every interleaving of the handlers, the document of a Succeeded
\* response and the violation list of a Rejected response are those of the
\* request's own payload.
C6_NoCrossTalk ==
    \A r \in Requests :
        (Done(r) /\ body[r].present) =>
            \A i \in 1..Len(responses[r]) :
                LET x == responses[r][i]
                IN  /\ x.tag = "Succeeded" => Mapped(r).ok /\ x.result = Mapped(r).value
                    /\ x.tag = "Rejected" =>
                           Mapped(r).ok /\ x.errors = OwnViolations(Mapped(r).value)

\* Two requests with different payloads were pending together: one was
\* validated and rejected while the other was suspended at its await, then
\* the other was rejected with another violation list.
C6_Witness ==
    /\ Done(1) /\ Done(2) /\ overlap
    /\ body[1].payload # body[2].payload
    /\ responses[1][1].tag = "Rejected" /\ responses[2][1].tag = "Rejected"
    /\ responses[1][1].errors # responses[2][1].errors

C8_TimeoutFails ==
    \A r \in Requests :
        (Done(r) /\ ticks[r] > EvalBound) =>
            \A i \in 1..Len(responses[r]) : responses[r][i].tag = "Failed"

\* The document has a string where amount wants a number.
StringAmount(doc) == "amount" \in DOMAIN doc /\ doc["amount"].t = "string"
OthersValid(doc) ==
    \A k \in RecordKeys \ {"amount"} : k \in DOMAIN doc /\ doc[k].t = "string"

Transitions ==
    {<<"Received", "Mapped">>, <<"Received", "Failed">>, <<"Mapped", "Validated">>,
     <<"Mapped", "Failed">>, <<"Validated", "Succeeded">>, <<"Validated", "Rejected">>}
Terminal == {"Succeeded", "Rejected", "Failed"}

\* The stages of r so far are a path of the pipeline, the validator ran only
\* on a returned evaluation, and r is done exactly when it is at a terminal
\* stage, with the response of that stage.
PipelineOrder(r) ==
    LET tr == trace[r]
    IN  /\ (pc[r] = "idle") = (tr = <<>>)
        /\ tr # <<>> =>
               /\ tr[1] = "Received"
               /\ \A i \in 1..(Len(tr) - 1) : <<tr[i], tr[i + 1]>> \in Transitions
               /\ Done(r) = (tr[Len(tr)] \in Terminal)
               /\ Done(r) => /\ Len(responses[r]) = 1
                             /\ responses[r][1].tag = tr[Len(tr)]
               /\ (\E i \in 1..Len(tr) : tr[i] = "Validated")
                      => body[r].present /\ Mapped(r).ok

\* C10: each request goes Received, Mapped, Validated, then Succeeded or
\* Rejected, or to Failed from Received or Mapped; the validator is not run
\* when the evaluation failed; and nothing follows a terminal stage.
C10_PipelineOrder ==
    /\ [](\A r \in Requests : PipelineOrder(r))
    /\ [][\A r \in Requests :
              Done(r) => /\ pc'[r] = "done"
                         /\ trace'[r] = trace[r]
                         /\ responses'[r] = responses[r]]_vars

\* One request went the whole way and was rejected, and one failed in the
\* evaluator.
C10_Witness ==
    /\ trace[1] = <<"Received", "Mapped", "Validated", "Rejected">>
    /\ trace[2] = <<"Received", "Failed">> /\ body[2].present
====
